---- MODULE Spec2Model ----
(***************************************************************************)
(* Financials Visualizer (adizpadiz/financial-visuals): the calculation    *)
(* core (computeKPIs, the range filter, the Simulator projection) and the  *)
(* import boundary (onUploadJSON, onUploadCSV, parseCSV, coercePeriods)    *)
(* of src/unnamed/part_000.                                                *)
(*                                                                         *)
(* Numbers.  A JavaScript number is modelled as a pair <<n, d>>: the exact *)
(* rational n/d in lowest terms with d > 0, NaN as <<0, 0>> and +-Infinity *)
(* as <<1, 0>> and <<-1, 0>>.  Arithmetic is exact: the rounding of IEEE   *)
(* 754 doubles is not modelled, and neither is the sign of zero.  A value  *)
(* that is absent from an object (undefined) is <<>>.                      *)
(*                                                                         *)
(* Strings are TLA+ strings, read character by character with Len and      *)
(* SubSeq.                                                                 *)
(***************************************************************************)
EXTENDS Integers, Sequences, FiniteSets, TLC

VARIABLES
    rows,      \* useState rows: the current period sequence
    range,     \* useState range: Null or [start, end]
    pending,   \* FileReader reads in flight, in the order the files were picked
    alert,     \* the notification raised by the last step ("none" when it raised none)
    data,      \* useMemo data: the range-filtered sequence handed to the engines
    kpis,      \* useMemo kpis: the result of computeKPIs(data), or the error it threw
    assm,      \* the Simulator's eight useState assumptions
    sim,       \* what the Simulator (its tab selected) renders for data[data.length - 1]
    crashed,   \* the render threw: React has unmounted the component tree
    superseded, \* history: how many of the oldest pending reads were started before
               \* the file of an import that has since been applied
    csv        \* a CSV text on its way through parseCSV and coercePeriods

vars == <<rows, range, pending, alert, data, kpis, assm, sim, crashed, superseded, csv>>

----------------------------------------------------------------------------
(* JavaScript numbers *)

Abs(x) == IF x < 0 THEN -x ELSE x

Sign(x) == IF x < 0 THEN -1 ELSE IF x = 0 THEN 0 ELSE 1

RECURSIVE GCD(_, _)
GCD(a, b) == IF b = 0 THEN a ELSE GCD(b, a % b)

NaN == <<0, 0>>

Undefined == <<>>

\* n/d in lowest terms; d = 0 gives NaN (n = 0) or an infinity
Num(n, d) ==
    IF d = 0 THEN <<Sign(n), 0>>
    ELSE LET g == GCD(Abs(n), Abs(d))
             s == IF d < 0 THEN -1 ELSE 1
         IN  <<(s * n) \div g, (s * d) \div g>>

I(n) == <<n, 1>>

IsNaN(x) == x = NaN

IsFinite(x) == x[2] # 0

\* undefined converts to NaN in arithmetic
ToNum(x) == IF x = Undefined THEN NaN ELSE x

Neg(x) == <<-x[1], x[2]>>

Add(x0, y0) ==
    LET x == ToNum(x0)
        y == ToNum(y0)
    IN  IF IsNaN(x) \/ IsNaN(y) THEN NaN
        ELSE IF ~IsFinite(x) /\ ~IsFinite(y) THEN (IF x = y THEN x ELSE NaN)
        ELSE IF ~IsFinite(x) THEN x
        ELSE IF ~IsFinite(y) THEN y
        ELSE LET g == GCD(x[2], y[2])
                 l == (x[2] \div g) * y[2]
             IN  Num(x[1] * (l \div x[2]) + y[1] * (l \div y[2]), l)

Sub(x, y) == Add(x, Neg(ToNum(y)))

Mul(x0, y0) ==
    LET x == ToNum(x0)
        y == ToNum(y0)
    IN  IF IsNaN(x) \/ IsNaN(y) THEN NaN
        ELSE IF ~IsFinite(x) \/ ~IsFinite(y) THEN <<Sign(x[1]) * Sign(y[1]), 0>>
        ELSE LET g1 == GCD(Abs(x[1]), y[2])
                 g2 == GCD(Abs(y[1]), x[2])
             IN  Num((x[1] \div g1) * (y[1] \div g2), (x[2] \div g2) * (y[2] \div g1))

Div(x0, y0) ==
    LET x == ToNum(x0)
        y == ToNum(y0)
    IN  IF IsNaN(x) \/ IsNaN(y) THEN NaN
        ELSE IF ~IsFinite(y) THEN (IF IsFinite(x) THEN I(0) ELSE NaN)
        ELSE IF y[1] = 0 THEN <<Sign(x[1]), 0>>
        ELSE IF ~IsFinite(x) THEN <<Sign(x[1]) * Sign(y[1]), 0>>
        ELSE Mul(x, Num(y[2], y[1]))

\* x === 0
IsZero(x) == x = I(0)

\* x > 0 (false for NaN and undefined)
Gt0(x) == x # Undefined /\ x[1] > 0

\* the truthiness of a number or undefined: 0, NaN and undefined are falsy
Truthy(x) == x # Undefined /\ x[1] # 0

\* x ?? y
Coalesce(x, y) == IF x = Undefined THEN y ELSE x

\* Math.max(0, x)
Max0(x) == IF IsNaN(ToNum(x)) THEN NaN ELSE IF Gt0(x) THEN x ELSE I(0)

----------------------------------------------------------------------------
(* type Period and the sample dataset *)

\* a Period with the given label and required fields; the optional fields are absent
Period(label, rev, cg, ox, ni, ocf, icf, fcf0, ta, tl, se) ==
    [period |-> label, revenue |-> I(rev), cogs |-> I(cg), opex |-> I(ox),
     r_and_d |-> Undefined, sga |-> Undefined, interest_expense |-> Undefined,
     tax_expense |-> Undefined, net_income |-> I(ni),
     operating_cash_flow |-> I(ocf), investing_cash_flow |-> I(icf),
     financing_cash_flow |-> I(fcf0), capex |-> Undefined,
     total_assets |-> I(ta), total_liabilities |-> I(tl), shareholders_equity |-> I(se)]

\* the optional fields of a Period, set
WithOptional(p, rd, sg, ie, te, cx) ==
    [p EXCEPT !.r_and_d = I(rd), !.sga = I(sg), !.interest_expense = I(ie),
              !.tax_expense = I(te), !.capex = I(cx)]

SAMPLE ==
    << WithOptional(Period("2021", 420, 210, 120, 60, 95, -40, -20, 600, 300, 300),
                    35, 85, 8, 12, 38),
       WithOptional(Period("2022", 520, 250, 140, 80, 125, -55, -30, 680, 340, 340),
                    40, 100, 10, 15, 45),
       WithOptional(Period("2023", 630, 290, 165, 110, 150, -70, -25, 770, 370, 400),
                    47, 118, 12, 18, 52),
       WithOptional(Period("2024", 720, 330, 180, 140, 190, -80, -35, 860, 410, 450),
                    52, 128, 13, 22, 60) >>

----------------------------------------------------------------------------
(* computeKPIs *)

\* faulty variant: the zero-prior convention left out
yoy_NoZeroGuard(a, b) == Div(Sub(a, b), b)

yoy(a, b) == IF IsZero(b) THEN I(0) ELSE Div(Sub(a, b), b)

grossMargin(p) ==
    IF IsZero(p.revenue) THEN I(0) ELSE Div(Sub(p.revenue, p.cogs), p.revenue)

opMargin(p) ==
    IF IsZero(p.revenue) THEN I(0)
    ELSE Div(Sub(Sub(p.revenue, p.cogs), p.opex), p.revenue)

\* faulty variant: the zero-revenue guard left out
netMargin_NoZeroGuard(p) == Div(p.net_income, p.revenue)

netMargin(p) ==
    IF IsZero(p.revenue) THEN I(0) ELSE Div(p.net_income, p.revenue)

debtToEquity(p) ==
    IF IsZero(p.shareholders_equity) THEN I(0)
    ELSE Div(p.total_liabilities, p.shareholders_equity)

assetTurnover(p) ==
    IF IsZero(p.total_assets) THEN I(0) ELSE Div(p.revenue, p.total_assets)

fcf(p) == Sub(p.operating_cash_flow, Coalesce(p.capex, I(0)))

\* data[data.length - 1]: undefined for the empty sequence
latestOf(d) == IF d = <<>> THEN Undefined ELSE d[Len(d)]

\* faulty variant: the first element taken as prior
priorOf_First(d) == IF Len(d) >= 2 THEN d[1] ELSE latestOf(d)

\* data[data.length - 2] ?? latest
priorOf(d) == IF Len(d) >= 2 THEN d[Len(d) - 1] ELSE latestOf(d)

\* one { value, delta } entry of the bundle
kpiEntry(a, b) == [value |-> a, delta |-> yoy(a, b)]

\* reading latest.period of an undefined latest throws a TypeError
computeKPIs(d) ==
    LET latest == latestOf(d)
        prior == priorOf(d)
    IN  IF latest = Undefined
        THEN [threw |-> "TypeError"]
        ELSE [threw |-> "none",
              latestPeriod |-> latest.period,
              revenue |-> kpiEntry(latest.revenue, prior.revenue),
              grossMargin |-> kpiEntry(grossMargin(latest), grossMargin(prior)),
              operatingMargin |-> kpiEntry(opMargin(latest), opMargin(prior)),
              netMargin |-> kpiEntry(netMargin(latest), netMargin(prior)),
              debtToEquity |-> kpiEntry(debtToEquity(latest), debtToEquity(prior)),
              assetTurnover |-> kpiEntry(assetTurnover(latest), assetTurnover(prior)),
              fcf |-> kpiEntry(fcf(latest), fcf(prior))]

----------------------------------------------------------------------------
(* Simulator *)

\* the useState initial values, taken from the base the component mounts with
InitAssumptions(base) ==
    [revGrowth |-> Num(1, 10),
     cogsMult |-> I(1),
     opexMult |-> I(1),
     capexPct |-> IF base # Undefined /\ Truthy(base.capex) /\ Truthy(base.revenue)
                  THEN Div(base.capex, base.revenue) ELSE Num(8, 100),
     wcPct |-> Num(1, 10),
     interestRate |-> IF base # Undefined /\ Truthy(base.total_liabilities)
                      THEN Div(Coalesce(base.interest_expense, I(0)), base.total_liabilities)
                      ELSE Num(5, 100),
     taxRate |-> Num(2, 10),
     financingDelta |-> I(0)]

cogsPctBase(base) == IF Truthy(base.revenue) THEN Div(base.cogs, base.revenue) ELSE I(0)

opexPctBase(base) == IF Truthy(base.revenue) THEN Div(base.opex, base.revenue) ELSE I(0)

\* faulty variant: the growth applied without the base
revenue1_GrowthOnly(base, a) == Mul(base.revenue, a.revGrowth)

revenue1(base, a) == Mul(base.revenue, Add(I(1), a.revGrowth))

cogs1(base, a, rev1) == Mul(rev1, Mul(cogsPctBase(base), a.cogsMult))

opex1(base, a, rev1) == Mul(rev1, Mul(opexPctBase(base), a.opexMult))

ebit1(rev1, cg1, ox1) == Sub(Sub(rev1, cg1), ox1)

\* faulty variant: the floor at 0 left out
debt1_NoFloor(base, a) == Add(base.total_liabilities, a.financingDelta)

debt1(base, a) == Max0(Add(base.total_liabilities, a.financingDelta))

\* faulty variant: the default rate used instead of the slider's
interest1_DefaultRate(a, dbt1) == Mul(dbt1, Num(5, 100))

interest1(a, dbt1) == Mul(dbt1, a.interestRate)

ebt1(ebit, int1) == Sub(ebit, int1)

\* faulty variant: the rate applied to losses too
tax1_OnLosses(a, ebt) == Mul(ebt, a.taxRate)

tax1(a, ebt) == Mul(IF Gt0(ebt) THEN ebt ELSE I(0), a.taxRate)

netIncome1(ebt, tax) == Sub(ebt, tax)

capex1(a, rev1) == Mul(rev1, a.capexPct)

deltaWC(base, a, rev1) == Mul(a.wcPct, Sub(rev1, base.revenue))

ocf1(ni1, dwc) == Sub(ni1, dwc)

fcf1(ocf, cpx1) == Sub(ocf, cpx1)

finCF1(a) == a.financingDelta

netCash1(fcf0, fin) == Add(fcf0, fin)

\* faulty variant: net income taken out of equity
equity1_Subtracted(base, ni1) == Sub(base.shareholders_equity, ni1)

equity1(base, ni1) == Add(base.shareholders_equity, ni1)

liabilities1(dbt1) == dbt1

assets1(liab1, eq1) == Add(liab1, eq1)

\* what the component renders: the "Upload data first" card when there is no base,
\* else the projection, each constant computed once from the ones before it
Simulator(base, a) ==
    IF base = Undefined
    THEN [view |-> "nodata"]
    ELSE LET rev1 == revenue1(base, a)
             cg1 == cogs1(base, a, rev1)
             ox1 == opex1(base, a, rev1)
             ebit == ebit1(rev1, cg1, ox1)
             dbt1 == debt1(base, a)
             int1 == interest1(a, dbt1)
             ebt == ebt1(ebit, int1)
             tax == tax1(a, ebt)
             ni1 == netIncome1(ebt, tax)
             cpx1 == capex1(a, rev1)
             dwc == deltaWC(base, a, rev1)
             ocf == ocf1(ni1, dwc)
             fcfS == fcf1(ocf, cpx1)
             fin == finCF1(a)
             eq1 == equity1(base, ni1)
             liab1 == liabilities1(dbt1)
         IN  [view |-> "projection",
              revenue1 |-> rev1, cogs1 |-> cg1, opex1 |-> ox1, ebit1 |-> ebit,
              debt1 |-> dbt1, interest1 |-> int1, ebt1 |-> ebt, tax1 |-> tax,
              netIncome1 |-> ni1, capex1 |-> cpx1, deltaWC |-> dwc, ocf1 |-> ocf,
              fcf1 |-> fcfS, finCF1 |-> fin, netCash1 |-> netCash1(fcfS, fin),
              equity1 |-> eq1, liabilities1 |-> liab1, assets1 |-> assets1(liab1, eq1)]

----------------------------------------------------------------------------
(* JavaScript strings *)

CharAt(s, i) == SubSeq(s, i, i)

IsSpace(c) == c \in {" ", "\t", "\n", "\r"}

RECURSIVE trimStart(_)
trimStart(s) ==
    IF Len(s) > 0 /\ IsSpace(CharAt(s, 1)) THEN trimStart(SubSeq(s, 2, Len(s))) ELSE s

RECURSIVE trimEnd(_)
trimEnd(s) ==
    IF Len(s) > 0 /\ IsSpace(CharAt(s, Len(s))) THEN trimEnd(SubSeq(s, 1, Len(s) - 1)) ELSE s

\* String.prototype.trim
trim(s) == trimEnd(trimStart(s))

\* String.prototype.includes
includes(s, t) == \E i \in 0..(Len(s) - Len(t)) : SubSeq(s, i + 1, i + Len(t)) = t

UpperCase == "ABCDEFGHIJKLMNOPQRSTUVWXYZ"

LowerCase == "abcdefghijklmnopqrstuvwxyz"

LowerOf == [c \in {CharAt(UpperCase, i) : i \in 1..26} |->
              CharAt(LowerCase, CHOOSE i \in 1..26 : CharAt(UpperCase, i) = c)]

lowerChar(c) == IF c \in DOMAIN LowerOf THEN LowerOf[c] ELSE c

RECURSIVE toLowerCase(_)
toLowerCase(s) ==
    IF s = "" THEN "" ELSE lowerChar(CharAt(s, 1)) \o toLowerCase(SubSeq(s, 2, Len(s)))

Digits == "0123456789"

IsDigit(c) == \E i \in 1..10 : CharAt(Digits, i) = c

digitValue(c) == (CHOOSE i \in 1..10 : CharAt(Digits, i) = c) - 1

AllDigits(s) == \A i \in 1..Len(s) : IsDigit(CharAt(s, i))

RECURSIVE digitsValue(_)
digitsValue(s) ==
    IF s = "" THEN 0
    ELSE 10 * digitsValue(SubSeq(s, 1, Len(s) - 1)) + digitValue(CharAt(s, Len(s)))

RECURSIVE pow10(_)
pow10(k) == IF k = 0 THEN 1 ELSE 10 * pow10(k - 1)

\* an unsigned decimal literal: digits, optionally a point and more digits
unsignedLiteral(s) ==
    LET dots == {i \in 1..Len(s) : CharAt(s, i) = "."}
    IN  IF dots = {}
        THEN (IF s # "" /\ AllDigits(s) THEN I(digitsValue(s)) ELSE NaN)
        ELSE LET d == CHOOSE i \in dots : \A j \in dots : i <= j
                 ip == SubSeq(s, 1, d - 1)
                 fp == SubSeq(s, d + 1, Len(s))
             IN  IF AllDigits(ip) /\ AllDigits(fp) /\ (ip \o fp) # ""
                 THEN Num(digitsValue(ip \o fp), pow10(Len(fp)))
                 ELSE NaN

\* faulty variant: parsed like parseInt, which stops at the decimal point
Number_ParseInt(s) ==
    LET t == trim(s)
        dots == {i \in 1..Len(t) : CharAt(t, i) = "."}
        ip == IF dots = {} THEN t ELSE SubSeq(t, 1, (CHOOSE i \in dots : \A j \in dots : i <= j) - 1)
    IN  IF ip = "" THEN I(0)
        ELSE IF CharAt(ip, 1) = "-" THEN
            (LET u == unsignedLiteral(SubSeq(ip, 2, Len(ip)))
             IN  IF IsNaN(u) THEN NaN ELSE Neg(u))
        ELSE unsignedLiteral(ip)

\* Number(s) for a string: whitespace is trimmed, the empty string is 0, a signed
\* decimal literal is its value and anything else is NaN (exponents, hexadecimal
\* literals and "Infinity" do not occur in the texts of this model)
Number(s) ==
    LET t == trim(s)
    IN  IF t = "" THEN I(0)
        ELSE IF CharAt(t, 1) = "-" THEN
            (LET u == unsignedLiteral(SubSeq(t, 2, Len(t)))
             IN  IF IsNaN(u) THEN NaN ELSE Neg(u))
        ELSE IF CharAt(t, 1) = "+" THEN unsignedLiteral(SubSeq(t, 2, Len(t)))
        ELSE unsignedLiteral(t)

RECURSIVE natToString(_)
natToString(n) ==
    IF n < 10 THEN CharAt(Digits, n + 1)
    ELSE natToString(n \div 10) \o CharAt(Digits, (n % 10) + 1)

\* the digits after the point of r/d, for a fraction with a finite decimal expansion
RECURSIVE fracToString(_, _)
fracToString(r, d) ==
    IF r = 0 THEN ""
    ELSE CharAt(Digits, ((10 * r) \div d) + 1) \o fracToString((10 * r) % d, d)

\* String(x) for a number (one whose decimal expansion is finite and short)
String(x) ==
    IF IsNaN(x) THEN "NaN"
    ELSE IF ~IsFinite(x) THEN (IF x[1] > 0 THEN "Infinity" ELSE "-Infinity")
    ELSE LET n == Abs(x[1])
             body == natToString(n \div x[2]) \o
                     (IF n % x[2] = 0 THEN "" ELSE "." \o fracToString(n % x[2], x[2]))
         IN  IF x[1] < 0 THEN "-" \o body ELSE body

----------------------------------------------------------------------------
(* parseCSV *)

\* the k-th smallest member of a set of positions
nth(S, k) == CHOOSE i \in S : Cardinality({j \in S : j < i}) = k - 1

\* s.split(/\r?\n/): a line feed, with the carriage return before it if there is
\* one, separates two pieces
splitLines(s) ==
    LET nl == {i \in 1..Len(s) : CharAt(s, i) = "\n"}
        n == Cardinality(nl)
        startOf(k) == IF k = 1 THEN 1 ELSE nth(nl, k - 1) + 1
        endOf(k) == IF k = n + 1 THEN Len(s)
                    ELSE LET q == nth(nl, k)
                         IN  IF q > startOf(k) /\ CharAt(s, q - 1) = "\r" THEN q - 2 ELSE q - 1
    IN  [k \in 1..(n + 1) |-> SubSeq(s, startOf(k), endOf(k))]

\* the pieces of s between the positions in cuts
piecesAt(s, cuts) ==
    LET n == Cardinality(cuts)
        startOf(k) == IF k = 1 THEN 1 ELSE nth(cuts, k - 1) + 1
        endOf(k) == IF k = n + 1 THEN Len(s) ELSE nth(cuts, k) - 1
    IN  [k \in 1..(n + 1) |-> SubSeq(s, startOf(k), endOf(k))]

\* s.split(",")
splitCommas(s) == piecesAt(s, {i \in 1..Len(s) : CharAt(s, i) = ","})

\* a piece of a line without its double quotes (the loop never appends one to cur)
RECURSIVE dropQuotes(_)
dropQuotes(s) ==
    IF s = "" THEN ""
    ELSE (IF CharAt(s, 1) = "\"" THEN "" ELSE CharAt(s, 1)) \o dropQuotes(SubSeq(s, 2, Len(s)))

\* the cell loop: a double quote toggles inQuotes and is dropped; a comma seen while
\* inQuotes is false (an even number of quotes before it) ends the cell
splitCells(line) ==
    LET quotes == {i \in 1..Len(line) : CharAt(line, i) = "\""}
        inQuotes(i) == Cardinality({q \in quotes : q < i}) % 2 = 1
        raw == piecesAt(line, {i \in 1..Len(line) : CharAt(line, i) = "," /\ ~inQuotes(i)})
    IN  [k \in 1..Len(raw) |-> dropQuotes(raw[k])]

\* s.replace(/^"|"$/g, ""): one leading and one trailing double quote removed
stripQuotes(s) ==
    LET a == IF Len(s) > 0 /\ CharAt(s, 1) = "\"" THEN SubSeq(s, 2, Len(s)) ELSE s
    IN  IF Len(a) > 0 /\ CharAt(a, Len(a)) = "\"" THEN SubSeq(a, 1, Len(a) - 1) ELSE a

\* An object is the sequence of its <<key, value>> entries in insertion order
\* (the keys of the texts of this model are not integer-like, which Object.keys
\* would list first).
\* obj[k] = v: an existing key keeps its place; assigning a string to __proto__
\* goes to the setter of Object.prototype, which ignores it and creates no key
objSet(obj, k, v) ==
    IF k = "__proto__" THEN obj
    ELSE IF \E i \in 1..Len(obj) : obj[i][1] = k
    THEN [i \in 1..Len(obj) |-> IF obj[i][1] = k THEN <<k, v>> ELSE obj[i]]
    ELSE Append(obj, <<k, v>>)

\* obj[k]
objGet(obj, k) ==
    IF \E i \in 1..Len(obj) : obj[i][1] = k
    THEN obj[CHOOSE i \in 1..Len(obj) : obj[i][1] = k][2]
    ELSE Undefined

\* Object.keys(obj)
objKeys(obj) == [i \in 1..Len(obj) |-> obj[i][1]]

\* faulty variant: the cell taken without trimming it
RECURSIVE zipRow_Untrimmed(_, _, _, _)
zipRow_Untrimmed(headers, cells, idx, obj) ==
    IF idx > Len(headers) THEN obj
    ELSE zipRow_Untrimmed(headers, cells, idx + 1,
                          objSet(obj, headers[idx],
                                 stripQuotes(IF idx <= Len(cells) THEN cells[idx] ELSE "")))

\* headers.forEach((h, idx) => obj[h] = (cells[idx] ?? "").trim().replace(...)), from idx on
RECURSIVE zipRow(_, _, _, _)
zipRow(headers, cells, idx, obj) ==
    IF idx > Len(headers) THEN obj
    ELSE zipRow(headers, cells, idx + 1,
                objSet(obj, headers[idx],
                       stripQuotes(trim(IF idx <= Len(cells) THEN cells[idx] ELSE ""))))

parseCSV(text) ==
    LET lines == splitLines(trim(text))
        split0 == splitCommas(lines[1])
        headers == [i \in 1..Len(split0) |-> trim(split0[i])]
    IN  [j \in 1..(Len(lines) - 1) |->
            zipRow(headers, splitCells(lines[j + 1]), 1, <<>>)]

----------------------------------------------------------------------------
(* coercePeriods *)

\* faulty variant: the alias of the leftmost matching column, whatever its priority
findAlias_ByColumn(obj, keys, i) ==
    LET hit == {j \in 1..Len(obj) :
                   \E k \in 1..Len(keys) : toLowerCase(obj[j][1]) = toLowerCase(keys[k])}
    IN  IF hit = {} THEN Undefined
        ELSE <<obj[CHOOSE j \in hit : \A k \in hit : j <= k][1]>>

\* keys.find((k) => Object.keys(obj).some((ok) => ok.toLowerCase() === k.toLowerCase()))
RECURSIVE findAlias(_, _, _)
findAlias(obj, keys, i) ==
    IF i > Len(keys) THEN Undefined
    ELSE IF \E j \in 1..Len(obj) : toLowerCase(obj[j][1]) = toLowerCase(keys[i])
         THEN <<keys[i]>>
    ELSE findAlias(obj, keys, i + 1)

mapKey(obj, keys, fallback) ==
    LET found == findAlias(obj, keys, 1)
    IN  IF found # Undefined
        THEN LET hit == {j \in 1..Len(obj) : toLowerCase(obj[j][1]) = toLowerCase(found[1])}
             IN  obj[CHOOSE j \in hit : \A k \in hit : j <= k][2]
        ELSE fallback

\* faulty variant: an empty cell parsed like parseFloat, which gives NaN
num_EmptyIsNaN(v) == IF trim(v) = "" THEN NaN ELSE Number(v)

\* num: "" is 0, anything else goes through Number
num(v) == IF v = "" THEN I(0) ELSE Number(v)

get(r, k) == num(mapKey(r, k, "0"))

coerceRow(r) ==
    [period |-> mapKey(r, <<"period", "date", "year", "quarter">>, ""),
     revenue |-> get(r, <<"revenue", "sales", "total_revenue">>),
     cogs |-> get(r, <<"cogs", "cost_of_goods_sold", "costs">>),
     opex |-> get(r, <<"opex", "operating_expenses", "operating_expense">>),
     r_and_d |-> get(r, <<"r_and_d", "rnd", "research_development", "research_and_development">>),
     sga |-> get(r, <<"sga", "selling_general_admin", "selling_general_and_administrative">>),
     interest_expense |-> get(r, <<"interest_expense", "interest">>),
     tax_expense |-> get(r, <<"tax_expense", "taxes">>),
     net_income |-> get(r, <<"net_income", "profit", "earnings">>),
     operating_cash_flow |-> get(r, <<"operating_cash_flow", "ocf">>),
     investing_cash_flow |-> get(r, <<"investing_cash_flow", "icf">>),
     financing_cash_flow |-> get(r, <<"financing_cash_flow", "fcf_financing">>),
     capex |-> get(r, <<"capex", "capital_expenditure">>),
     total_assets |-> get(r, <<"total_assets", "assets">>),
     total_liabilities |-> get(r, <<"total_liabilities", "liabilities">>),
     shareholders_equity |-> get(r, <<"shareholders_equity", "equity">>)]

\* the ordered alias list of every field, as coerceRow passes them to mapKey
Aliases ==
    [period |-> <<"period", "date", "year", "quarter">>,
     revenue |-> <<"revenue", "sales", "total_revenue">>,
     cogs |-> <<"cogs", "cost_of_goods_sold", "costs">>,
     opex |-> <<"opex", "operating_expenses", "operating_expense">>,
     r_and_d |-> <<"r_and_d", "rnd", "research_development", "research_and_development">>,
     sga |-> <<"sga", "selling_general_admin", "selling_general_and_administrative">>,
     interest_expense |-> <<"interest_expense", "interest">>,
     tax_expense |-> <<"tax_expense", "taxes">>,
     net_income |-> <<"net_income", "profit", "earnings">>,
     operating_cash_flow |-> <<"operating_cash_flow", "ocf">>,
     investing_cash_flow |-> <<"investing_cash_flow", "icf">>,
     financing_cash_flow |-> <<"financing_cash_flow", "fcf_financing">>,
     capex |-> <<"capex", "capital_expenditure">>,
     total_assets |-> <<"total_assets", "assets">>,
     total_liabilities |-> <<"total_liabilities", "liabilities">>,
     shareholders_equity |-> <<"shareholders_equity", "equity">>]

coercePeriods(rs) == [i \in 1..Len(rs) |-> coerceRow(rs[i])]

----------------------------------------------------------------------------
(* FinanceVisualizer: the range filter and the render *)

\* the value of range before either filter input was used
Null == <<>>

\* no CSV text under way
NoCSV == [stage |-> "none"]

\* rows.findIndex((r) => r.period.includes(marker)), 0-based, -1 when none matches
findIndex(rs, marker) ==
    LET hit == {i \in 1..Len(rs) : includes(rs[i].period, marker)}
    IN  IF hit = {} THEN -1 ELSE (CHOOSE i \in hit : \A j \in hit : i <= j) - 1

\* Array.prototype.slice(from, to) with 0-based bounds
slice(rs, from, to) ==
    LET n == Len(rs)
        lo == IF from < 0 THEN (IF n + from < 0 THEN 0 ELSE n + from)
              ELSE IF from > n THEN n ELSE from
        hi == IF to < 0 THEN (IF n + to < 0 THEN 0 ELSE n + to)
              ELSE IF to > n THEN n ELSE to
    IN  IF hi <= lo THEN <<>> ELSE SubSeq(rs, lo + 1, hi)

\* faulty variant: only the start marker checked for a match
filteredData_EndUnchecked(rs, rg) ==
    IF rg = Null THEN rs
    ELSE LET startIdx == findIndex(rs, String(rg.start))
             endIdx == findIndex(rs, String(rg.end))
         IN  IF startIdx = -1 THEN rs ELSE slice(rs, startIdx, endIdx + 1)

\* useMemo data
filteredData(rs, rg) ==
    IF rg = Null THEN rs
    ELSE LET startIdx == findIndex(rs, String(rg.start))
             endIdx == findIndex(rs, String(rg.end))
         IN  IF startIdx = -1 \/ endIdx = -1 THEN rs
             ELSE slice(rs, startIdx, endIdx + 1)

\* Number(text) || fallback
numberOr(text, fallback) == IF Truthy(Number(text)) THEN Number(text) ELSE fallback

\* the updater of the start input
rangeAfterStart(rg, text) ==
    [start |-> numberOr(text, I(0)), end |-> IF rg = Null THEN I(9999) ELSE rg.end]

\* the updater of the end input
rangeAfterEnd(rg, text) ==
    [start |-> IF rg = Null THEN I(0) ELSE rg.start, end |-> numberOr(text, I(9999))]

\* the render that follows a state change, on the new rows and range: an exception
\* thrown by computeKPIs leaves the render and React unmounts the tree
RenderWith(rs, rg) ==
    /\ data' = filteredData(rs, rg)
    /\ kpis' = computeKPIs(data')
    /\ crashed' = (kpis'.threw # "none")
    /\ sim' = IF crashed' THEN [view |-> "unmounted"] ELSE Simulator(latestOf(data'), assm')

----------------------------------------------------------------------------
(* the files a user may pick, and the texts typed in the range inputs *)

MaxPending == 2

MaxRows == 3

WithCapex(p, cx) == [p EXCEPT !.capex = I(cx)]

\* periods with finite fields: a zero revenue, equity, assets, liabilities, margin
\* and free cash flow each occur, with the other fields non-zero
PA == WithCapex(Period("A", 4, 1, 1, 1, 3, -1, 0, 8, 3, 5), 1)
PB == Period("B", 2, 1, 2, -1, 1, 0, 0, 4, 1, 2)
PC == WithCapex(Period("C", 0, 2, 1, 3, 2, 0, 0, 5, 2, 3), 1)
PD == WithCapex(Period("D", 4, 2, 1, 1, 2, 0, 0, 3, 3, 0), 2)
PE == Period("E", 3, 1, 2, 0, 0, 0, 0, 0, 1, -1)
PF == Period("F", 2, 2, 1, 1, 1, 0, 0, 4, 0, 4)

KPIPeriods == {PA, PB, PC, PD, PE, PF}

KPIInputs == UNION {[1..n -> KPIPeriods] : n \in 0..MaxRows}

SimBases == {SAMPLE[4], PA, PB, PC, PF}

JBad == [kind |-> "json", name |-> "bad.json", syntax |-> "invalid"]

JObject == [kind |-> "json", name |-> "object.json", syntax |-> "valid",
            value |-> [isArray |-> FALSE]]

JEmpty == [kind |-> "json", name |-> "empty.json", syntax |-> "valid",
           value |-> [isArray |-> TRUE, items |-> <<>>]]

JTwo == [kind |-> "json", name |-> "two.json", syntax |-> "valid",
         value |-> [isArray |-> TRUE,
                    items |-> << Period("2023 Q1", 4, 1, 1, 1, 3, -1, 0, 8, 3, 5),
                                 Period("2022 Q4", 2, 1, 2, -1, 1, 0, 0, 4, 1, 2) >>]]

JSONFiles == {JBad, JObject, JEmpty, JTwo}

\* the CSV of runSelfTests
SelfTestCSV ==
    "period,revenue,cogs,opex,net_income,operating_cash_flow,investing_cash_flow," \o
    "financing_cash_flow,total_assets,total_liabilities,shareholders_equity\n" \o
    "2020,100,40,20,25,30,-10,-5,200,90,110"

CHeader == [kind |-> "csv", name |-> "header.csv", throws |-> FALSE,
            text |-> "period,revenue,cogs\n"]

CSelf == [kind |-> "csv", name |-> "selftest.csv", throws |-> FALSE, text |-> SelfTestCSV]

\* a text on which the parser throws (the engine runs out of memory splitting it)
CThrows == [kind |-> "csv", name |-> "huge.csv", throws |-> TRUE, text |-> ""]

CSVFiles == {CHeader, CSelf, CThrows}

RangeTexts == {"", "2022", "2023", "2030"}

----------------------------------------------------------------------------
(* the import boundary *)

\* JSON.parse of a file's text: a SyntaxError, or the value
JSONparse(f) ==
    IF f.syntax = "invalid" THEN [threw |-> TRUE] ELSE [threw |-> FALSE, value |-> f.value]

\* faulty variant: a value that is not an array replaces the rows by nothing
jsonOnload_RejectClears(cur, f) ==
    LET parsed == JSONparse(f)
    IN  IF parsed.threw THEN [rows |-> cur, alert |-> "Invalid JSON file."]
        ELSE IF parsed.value.isArray THEN [rows |-> parsed.value.items, alert |-> "none"]
        ELSE [rows |-> <<>>, alert |-> "JSON should be an array of Period objects."]

\* reader.onload of onUploadJSON: the rows and the notification it leaves
jsonOnload(cur, f) ==
    LET parsed == JSONparse(f)
    IN  IF parsed.threw THEN [rows |-> cur, alert |-> "Invalid JSON file."]
        ELSE IF parsed.value.isArray THEN [rows |-> parsed.value.items, alert |-> "none"]
        ELSE [rows |-> cur, alert |-> "JSON should be an array of Period objects."]

\* coercePeriods(parseCSV(text)) of each text a file of the model holds
csvImport == [t \in {f.text : f \in CSVFiles} |-> coercePeriods(parseCSV(t))]

\* reader.onload of onUploadCSV: the rows and the notification it leaves
csvOnload(cur, f) ==
    IF f.throws THEN [rows |-> cur, alert |-> "Failed to parse CSV."]
    ELSE [rows |-> csvImport[f.text], alert |-> "none"]

----------------------------------------------------------------------------
(* FinanceVisualizer: the state after the first render, and the handlers *)

Init ==
    /\ rows = SAMPLE
    /\ range = Null
    /\ pending = <<>>
    /\ alert = "none"
    /\ data = filteredData(rows, range)
    /\ kpis = computeKPIs(data)
    /\ crashed = FALSE
    /\ superseded = 0
    /\ csv = NoCSV
    /\ assm = InitAssumptions(latestOf(data))
    /\ sim = Simulator(latestOf(data), assm)

\* onUploadJSON: the file picked starts a read
PickJSON ==
    /\ ~crashed
    /\ Len(pending) < MaxPending
    /\ \E f \in JSONFiles : pending' = Append(pending, f)
    /\ alert' = "none"
    /\ UNCHANGED <<rows, range, data, kpis, assm, sim, crashed, superseded, csv>>

\* onUploadCSV: the file picked starts a read
PickCSV ==
    /\ ~crashed
    /\ Len(pending) < MaxPending
    /\ \E f \in CSVFiles : pending' = Append(pending, f)
    /\ alert' = "none"
    /\ UNCHANGED <<rows, range, data, kpis, assm, sim, crashed, superseded, csv>>

without(q, i) == SubSeq(q, 1, i - 1) \o SubSeq(q, i + 1, Len(q))

\* what reader.onload leaves for a file: the rows and the notification
onloadOf(cur, f) == IF f.kind = "json" THEN jsonOnload(cur, f) ELSE csvOnload(cur, f)

\* a read completes: reader.onload of the handler that started it
Onload ==
    /\ ~crashed
    /\ \E i \in 1..Len(pending) :
          LET r == onloadOf(rows, pending[i])
          IN  /\ pending' = without(pending, i)
              /\ rows' = r.rows
              /\ alert' = r.alert
    /\ UNCHANGED <<range, assm, superseded, csv>>
    /\ RenderWith(rows', range')

\* the Reset Sample button
ResetSample ==
    /\ ~crashed
    /\ rows' = SAMPLE
    /\ alert' = "none"
    /\ UNCHANGED <<range, pending, assm, superseded, csv>>
    /\ RenderWith(rows', range')

\* typing in the start input of the range filter
SetRangeStart ==
    /\ ~crashed
    /\ \E text \in RangeTexts : range' = rangeAfterStart(range, text)
    /\ alert' = "none"
    /\ UNCHANGED <<rows, pending, assm, superseded, csv>>
    /\ RenderWith(rows', range')

\* typing in the end input of the range filter
SetRangeEnd ==
    /\ ~crashed
    /\ \E text \in RangeTexts : range' = rangeAfterEnd(range, text)
    /\ alert' = "none"
    /\ UNCHANGED <<rows, pending, assm, superseded, csv>>
    /\ RenderWith(rows', range')

Next ==
    \/ PickJSON
    \/ PickCSV
    \/ Onload
    \/ ResetSample
    \/ SetRangeStart
    \/ SetRangeEnd

Spec == Init /\ [][Next]_vars

----------------------------------------------------------------------------
(* reads in flight: files picked one after the other, their reads completing in *)
(* any order, with the history of which pending reads have been overtaken       *)

\* a read completes, and the history records the reads started before it when its
\* import is applied
OnloadTracked ==
    /\ ~crashed
    /\ \E i \in 1..Len(pending) :
          LET r == onloadOf(rows, pending[i])
          IN  /\ pending' = without(pending, i)
              /\ rows' = r.rows
              /\ alert' = r.alert
              /\ superseded' = IF i <= superseded THEN superseded - 1
                               ELSE IF r.alert = "none" THEN i - 1
                               ELSE superseded
    /\ UNCHANGED <<range, assm, csv>>
    /\ RenderWith(rows', range')

ReadsNext ==
    \/ PickJSON
    \/ PickCSV
    \/ OnloadTracked

SpecReads == Init /\ [][ReadsNext]_vars

----------------------------------------------------------------------------
(* computeKPIs applied to bounded period sequences *)

KPIInit ==
    /\ rows \in KPIInputs
    /\ range = Null
    /\ pending = <<>>
    /\ alert = "none"
    /\ data = rows
    /\ kpis = [threw |-> "notrun"]
    /\ crashed = FALSE
    /\ superseded = 0
    /\ csv = NoCSV
    /\ assm = InitAssumptions(Undefined)
    /\ sim = [view |-> "unmounted"]

KPIRun ==
    /\ kpis.threw = "notrun"
    /\ kpis' = computeKPIs(data)
    /\ crashed' = (kpis'.threw # "none")
    /\ UNCHANGED <<rows, range, pending, alert, data, assm, sim, superseded, csv>>

KPINext == KPIRun

SpecKPI == KPIInit /\ [][KPINext]_vars

----------------------------------------------------------------------------
(* the Simulator mounted on a base period, its sliders moved *)

RevGrowthSteps == {Num(-1, 2), I(0)}
CogsMultSteps == {I(1), Num(3, 2)}
OpexMultSteps == {I(1), Num(1, 2)}
CapexPctSteps == {Num(3, 10)}
WcPctSteps == {Num(-1, 2)}
InterestRateSteps == {I(0), Num(3, 10)}
TaxRateSteps == {I(0), Num(1, 2)}
FinancingDeltaSteps == {I(-500), I(-5), I(0), I(500)}

SimInit ==
    /\ rows \in {<<b>> : b \in SimBases}
    /\ range = Null
    /\ pending = <<>>
    /\ alert = "none"
    /\ data = rows
    /\ kpis = computeKPIs(data)
    /\ crashed = FALSE
    /\ superseded = 0
    /\ csv = NoCSV
    /\ assm = InitAssumptions(latestOf(data))
    /\ sim = Simulator(latestOf(data), assm)

\* a slider's onChange: the assumption is set and the component renders again
SetAssumption(a) ==
    /\ assm' = a
    /\ sim' = Simulator(latestOf(data), assm')
    /\ UNCHANGED <<rows, range, pending, alert, data, kpis, crashed, superseded, csv>>

SetRevGrowth == \E v \in RevGrowthSteps : SetAssumption([assm EXCEPT !.revGrowth = v])
SetCogsMult == \E v \in CogsMultSteps : SetAssumption([assm EXCEPT !.cogsMult = v])
SetOpexMult == \E v \in OpexMultSteps : SetAssumption([assm EXCEPT !.opexMult = v])
SetCapexPct == \E v \in CapexPctSteps : SetAssumption([assm EXCEPT !.capexPct = v])
SetWcPct == \E v \in WcPctSteps : SetAssumption([assm EXCEPT !.wcPct = v])
SetInterestRate == \E v \in InterestRateSteps : SetAssumption([assm EXCEPT !.interestRate = v])
SetTaxRate == \E v \in TaxRateSteps : SetAssumption([assm EXCEPT !.taxRate = v])
SetFinancingDelta == \E v \in FinancingDeltaSteps : SetAssumption([assm EXCEPT !.financingDelta = v])

SimNext ==
    \/ SetRevGrowth
    \/ SetCogsMult
    \/ SetOpexMult
    \/ SetCapexPct
    \/ SetWcPct
    \/ SetInterestRate
    \/ SetTaxRate
    \/ SetFinancingDelta

SpecSim == SimInit /\ [][SimNext]_vars

----------------------------------------------------------------------------
(* parseCSV and coercePeriods applied to bounded texts, as in runSelfTests *)

MaxLines == 2

MaxExport == 2

RECURSIVE joinWith(_, _)
joinWith(ss, sep) ==
    IF ss = <<>> THEN ""
    ELSE IF Len(ss) = 1 THEN ss[1]
    ELSE ss[1] \o sep \o joinWith(Tail(ss), sep)

\* the canonical column of every Period field, in the order of the type
CanonicalColumns ==
    <<"period", "revenue", "cogs", "opex", "r_and_d", "sga", "interest_expense",
      "tax_expense", "net_income", "operating_cash_flow", "investing_cash_flow",
      "financing_cash_flow", "capex", "total_assets", "total_liabilities",
      "shareholders_equity">>

\* the cell written for a field: the label as it is, a number as String writes it,
\* nothing for an absent field
cellOf(p, c) ==
    IF c = "period" THEN p.period
    ELSE IF p[c] = Undefined THEN ""
    ELSE String(p[c])

\* the periods written as comma-delimited text under a header row of the canonical
\* column names
toTabular(ps) ==
    joinWith(<<joinWith(CanonicalColumns, ",")>> \o
             [i \in 1..Len(ps) |->
                 joinWith([k \in 1..Len(CanonicalColumns) |-> cellOf(ps[i], CanonicalColumns[k])],
                          ",")],
             "\n")

HeaderLines ==
    {"period,revenue,cogs", "sales,revenue", "Sales,COGS,Year", "revenue,revenue",
     "__proto__,cogs", " period , Revenue "}

RowLines ==
    {"2020,100,40", "1", "1,2,3,4", " 7 , 8.5 ", "\"x,y\",-5", ",,abc", ""}

\* texts with line feeds and carriage returns around and between the lines
ExtraTexts ==
    {SelfTestCSV, "", "period,revenue\r\n2020,5\r\n2021,6\r\n",
     "\n period,cogs\n2020, 3 \n\n"}

CSVTexts ==
    HeaderLines \cup ExtraTexts \cup
    {joinWith(<<h>> \o body, "\n") :
        h \in HeaderLines, body \in UNION {[1..n -> RowLines] : n \in 1..MaxLines}}

\* periods to write out: every field set, a fraction and negative numbers, the
\* optional fields absent, a label with a space before it and double quotes in it
RA == SAMPLE[4]
RB == [SAMPLE[1] EXCEPT !.period = "2023 Q4", !.revenue = Num(841, 2), !.capex = Num(1, 8)]
RC == Period("2019", 2, 1, 2, -1, 1, 0, 0, 4, 1, 2)
RD == [SAMPLE[2] EXCEPT !.period = " FY \"22\""]

ExportPeriods == {RA, RB, RC, RD}

ExportInputs == UNION {[1..n -> ExportPeriods] : n \in 0..MaxExport}

CSVInit ==
    /\ rows = <<>>
    /\ range = Null
    /\ pending = <<>>
    /\ alert = "none"
    /\ kpis = [threw |-> "notrun"]
    /\ crashed = FALSE
    /\ superseded = 0
    /\ assm = InitAssumptions(Undefined)
    /\ sim = [view |-> "unmounted"]
    /\ \/ /\ data = <<>>
          /\ \E t \in CSVTexts : csv = [stage |-> "picked", text |-> t, exported |-> FALSE]
       \/ /\ data \in ExportInputs
          /\ csv = [stage |-> "picked", text |-> toTabular(data), exported |-> TRUE]

\* coercePeriods(parseCSV(csv))
CSVRun ==
    /\ csv.stage = "picked"
    /\ csv' = [stage |-> "done", text |-> csv.text, exported |-> csv.exported,
               parsed |-> parseCSV(csv.text)]
    /\ rows' = coercePeriods(csv'.parsed)
    /\ UNCHANGED <<range, pending, alert, data, kpis, assm, sim, crashed, superseded>>

CSVNext == CSVRun

SpecCSV == CSVInit /\ [][CSVNext]_vars

----------------------------------------------------------------------------
(* Properties *)

\* the 1-based position of the first period whose label contains the marker, 0 if none
FirstMatch(marker) ==
    IF \E i \in 1..Len(rows) : includes(rows[i].period, marker)
    THEN CHOOSE i \in 1..Len(rows) :
            /\ includes(rows[i].period, marker)
            /\ \A j \in 1..(i - 1) : ~includes(rows[j].period, marker)
    ELSE 0

StartMatch == IF range = Null THEN 0 ELSE FirstMatch(String(range.start))

EndMatch == IF range = Null THEN 0 ELSE FirstMatch(String(range.end))

\* C1: whenever the period sequence handed to the engines is empty, no error is
\* raised: the KPI computation on it does not fail and the simulator shows its
\* inert "no data" state.
C1_EmptyDataRaisesNoError ==
    data = <<>> => (kpis.threw = "none" /\ ~crashed /\ sim.view = "nodata")

RejectAlerts ==
    {"Invalid JSON file.", "JSON should be an array of Period objects.", "Failed to parse CSV."}

\* C2: a step that rejects an import (JSON that does not parse, JSON that is not an
\* array, CSV parsing that throws) raises its notification and leaves the period
\* sequence, and what is derived from it, as it was.
C2_RejectedImportKeepsRows ==
    [][alert' \in RejectAlerts => (rows' = rows /\ range' = range /\ data' = data)]_vars

\* C2 witness: an import was rejected while the sequence was an imported one
C2_Witness == alert \in RejectAlerts /\ rows # SAMPLE /\ rows # <<>>

\* C6: with a range set whose start marker or end marker is contained in no period
\* label, the filtered sequence is the full current sequence, in the same order.
C6_UnmatchedMarkerIsNoOp ==
    (range # Null /\ (StartMatch = 0 \/ EndMatch = 0)) =>
        (Len(data) = Len(rows) /\ \A i \in 1..Len(rows) : data[i] = rows[i])

\* C6 witness: the end marker matches a label, the start marker matches none
C6_Witness ==
    /\ range # Null
    /\ StartMatch = 0
    /\ EndMatch > 0
    /\ Len(rows) >= 2
    /\ data = rows

\* the periods of rows from position s to position e, both included
IsInclusiveRun(s, e) ==
    /\ Len(data) = e - s + 1
    /\ \A k \in 1..Len(data) : data[k] = rows[s + k - 1]

\* C7: with both markers contained in some label, the filtered sequence
\* starts with the first period matching the start marker, ends with the first
\* period matching the end marker and holds every period between them.
C7_BothMatchedGivesInclusiveRun ==
    (range # Null /\ StartMatch > 0 /\ EndMatch > 0) =>
        (data # <<>> /\ IsInclusiveRun(StartMatch, EndMatch))

\* C17: range filtering never empties a non-empty dataset: whatever the range
\* markers, reversed ones included, the filtered sequence of a non-empty
\* dataset holds at least one period.
C17_FilterNeverEmpties == rows # <<>> => data # <<>>

\* C18: picking another file supersedes a read still pending: a read that
\* completes after a file picked later has been imported changes no rows.
C18_SupersededReadChangesNothing ==
    [][(\E i \in 1..Len(pending) :
            i <= superseded /\ pending' = without(pending, i)) => rows' = rows]_vars

KpisRan == kpis.threw = "none"

Latest == data[Len(data)]

Prior == data[Len(data) - 1]

\* the seven tracked metrics of a period
MetricNames ==
    {"revenue", "grossMargin", "operatingMargin", "netMargin", "debtToEquity",
     "assetTurnover", "fcf"}

MetricOf(p) ==
    [revenue |-> p.revenue, grossMargin |-> grossMargin(p), operatingMargin |-> opMargin(p),
     netMargin |-> netMargin(p), debtToEquity |-> debtToEquity(p),
     assetTurnover |-> assetTurnover(p), fcf |-> fcf(p)]

\* C3: for a sequence of length >= 2, the delta of every tracked metric is 0 when
\* the metric of the second-to-last period is 0, whatever the last period's is, and
\* (latest - prior) / prior otherwise.
C3_DeltaZeroOnZeroPrior ==
    (KpisRan /\ Len(data) >= 2) =>
        \A m \in MetricNames :
            LET l == MetricOf(Latest)[m]
                q == MetricOf(Prior)[m]
            IN  kpis[m].delta = IF q = I(0) THEN I(0) ELSE Div(Sub(l, q), q)

\* C3 witness: the prior revenue is 0, the latest is not, and the delta reported is 0,
\* while another metric has a non-zero prior and a non-zero delta
C3_Witness ==
    /\ KpisRan
    /\ Len(data) >= 2
    /\ Prior.revenue = I(0)
    /\ Latest.revenue # I(0)
    /\ kpis.revenue.delta = I(0)
    /\ MetricOf(Prior).fcf # I(0)
    /\ kpis.fcf.delta # I(0)

\* C4: a ratio whose denominator is 0 is 0: with revenue 0 the gross, operating and
\* net margins and the asset turnover are 0, with equity 0 the debt-to-equity is 0,
\* with total assets 0 the asset turnover is 0, whatever the other fields are.
C4_ZeroDenominatorGivesZero ==
    KpisRan =>
        /\ Latest.revenue = I(0) =>
              /\ kpis.grossMargin.value = I(0)
              /\ kpis.operatingMargin.value = I(0)
              /\ kpis.netMargin.value = I(0)
              /\ kpis.assetTurnover.value = I(0)
        /\ Latest.shareholders_equity = I(0) => kpis.debtToEquity.value = I(0)
        /\ Latest.total_assets = I(0) => kpis.assetTurnover.value = I(0)
        /\ \A m \in MetricNames : IsFinite(kpis[m].value) /\ IsFinite(kpis[m].delta)

\* C4 witness: KPIs of a latest period with revenue 0 and the numerators non-zero
C4_Witness ==
    /\ KpisRan
    /\ Latest.revenue = I(0)
    /\ Latest.cogs # I(0)
    /\ Latest.net_income # I(0)
    /\ Latest.total_assets # I(0)
    /\ kpis.netMargin.value = I(0)

\* C5: latestPeriod and every value come from the last element alone, every delta
\* from the last against the second-to-last (elements before them change nothing),
\* and with a single element every delta is 0.
C5_LastAndSecondToLastOnly ==
    KpisRan =>
        /\ kpis.latestPeriod = Latest.period
        /\ \A m \in MetricNames : kpis[m].value = MetricOf(Latest)[m]
        /\ Len(data) >= 2 => kpis = computeKPIs(<<Prior, Latest>>)
        /\ Len(data) = 1 => \A m \in MetricNames : kpis[m].delta = I(0)

\* C5 witness: three periods, the first unlike the second, and a non-zero delta
C5_Witness ==
    /\ KpisRan
    /\ Len(data) = 3
    /\ MetricOf(data[1]).revenue # MetricOf(data[2]).revenue
    /\ data[1] # data[3]
    /\ kpis.revenue.delta # I(0)

Base == latestOf(data)

Projected == sim.view = "projection"

IdentityScenario ==
    /\ assm.revGrowth = I(0)
    /\ assm.cogsMult = I(1)
    /\ assm.opexMult = I(1)
    /\ assm.financingDelta = I(0)

\* C8 as stated: with revenueGrowth 0, both multipliers 1 and financingDelta 0 the
\* projection reproduces the base revenue, cogs and opex, for every base period.
C8_IdentityReproducesBase ==
    (Projected /\ IdentityScenario) =>
        /\ sim.revenue1 = Base.revenue
        /\ sim.cogs1 = Base.cogs
        /\ sim.opex1 = Base.opex

\* C8 amended: revenue1 is the base revenue; cogs1 and opex1 are the base cogs and
\* opex when the base revenue is not 0, and are 0 when it is 0.
C8_IdentityReproducesBaseUnlessZeroRevenue ==
    (Projected /\ IdentityScenario) =>
        /\ sim.revenue1 = Base.revenue
        /\ Base.revenue # I(0) => (sim.cogs1 = Base.cogs /\ sim.opex1 = Base.opex)
        /\ Base.revenue = I(0) => (sim.cogs1 = I(0) /\ sim.opex1 = I(0))

\* C8 witness: the identity scenario reached by the sliders on a base whose ratios
\* are not whole numbers, the other assumptions moved
C8_Witness ==
    /\ Projected
    /\ IdentityScenario
    /\ Base = SAMPLE[4]
    /\ assm.taxRate = Num(1, 2)
    /\ assm.interestRate = Num(3, 10)
    /\ sim.cogs1 = I(330)
    /\ sim.opex1 = I(180)

\* C9: the projected balance sheet balances: assets1 = liabilities1 + equity1, with
\* liabilities1 = debt1 and equity1 = base equity + netIncome1, for all assumptions.
C9_BalanceIdentity ==
    Projected =>
        /\ sim.assets1 = Add(sim.liabilities1, sim.equity1)
        /\ sim.liabilities1 = sim.debt1
        /\ sim.liabilities1 = Max0(Add(Base.total_liabilities, assm.financingDelta))
        /\ sim.equity1 = Add(Base.shareholders_equity, sim.netIncome1)

\* C9 witness: debt was raised and a loss reduced equity
C9_Witness ==
    /\ Projected
    /\ assm.financingDelta = I(500)
    /\ ~Gt0(sim.netIncome1)
    /\ sim.netIncome1 # I(0)
    /\ Gt0(sim.debt1)
    /\ sim.assets1 = Add(sim.debt1, sim.equity1)

\* C10: with interestRateOnDebt 0 and taxRate 0 the projected net income is the
\* projected EBIT, revenue1 - cogs1 - opex1; for the 2024 sample period with no
\* growth and both multipliers 1 both are 210.
C10_NoInterestNoTaxGivesEbit ==
    (Projected /\ assm.interestRate = I(0) /\ assm.taxRate = I(0)) =>
        /\ sim.netIncome1 = sim.ebit1
        /\ sim.ebit1 = Sub(Sub(sim.revenue1, sim.cogs1), sim.opex1)
        /\ (Base = SAMPLE[4] /\ assm.revGrowth = I(0) /\ assm.cogsMult = I(1)
                /\ assm.opexMult = I(1)) =>
              (sim.netIncome1 = I(210) /\ sim.ebit1 = I(210))

\* C10 witness: the concrete scenario, with debt left to bear interest
C10_Witness ==
    /\ Projected
    /\ Base = SAMPLE[4]
    /\ assm.interestRate = I(0)
    /\ assm.taxRate = I(0)
    /\ assm.revGrowth = I(0)
    /\ assm.cogsMult = I(1)
    /\ assm.opexMult = I(1)
    /\ assm.financingDelta = I(0)
    /\ sim.debt1 = I(410)
    /\ sim.netIncome1 = I(210)

\* x <= y, for finite numbers
Leq(x, y) == ~Gt0(Sub(x, y))

\* C15 as stated: the projected liabilities differ from the base liabilities by the
\* projected financing cash flow, which is financingDelta, for every base period.
C15_LiabilitiesMoveByFinancing ==
    Projected =>
        /\ Sub(sim.liabilities1, Base.total_liabilities) = sim.finCF1
        /\ sim.finCF1 = assm.financingDelta

\* C15 amended: the financing cash flow is financingDelta; the liabilities move by
\* it when base liabilities + financingDelta is not negative, and are 0 otherwise.
C15_LiabilitiesMoveByFinancingOrFloor ==
    Projected =>
        /\ sim.finCF1 = assm.financingDelta
        /\ sim.liabilities1 = sim.debt1
        /\ IF Leq(I(0), Add(Base.total_liabilities, assm.financingDelta))
           THEN Sub(sim.liabilities1, Base.total_liabilities) = assm.financingDelta
           ELSE sim.liabilities1 = I(0)

\* C15 witness: debt partly repaid, the liabilities down by the cash paid out
C15_Witness ==
    /\ Projected
    /\ assm.financingDelta = I(-5)
    /\ Base.total_liabilities = I(410)
    /\ sim.liabilities1 = I(405)
    /\ sim.finCF1 = I(-5)

\* C16: tax1 >= 0 and netIncome1 <= ebt1; with ebt1 <= 0 the tax is 0 and net income
\* is ebt1; with ebt1 > 0 net income is ebt1 * (1 - taxRate).
C16_NoTaxBenefitOnLosses ==
    Projected =>
        /\ Leq(I(0), sim.tax1)
        /\ Leq(sim.netIncome1, sim.ebt1)
        /\ Leq(sim.ebt1, I(0)) => (sim.tax1 = I(0) /\ sim.netIncome1 = sim.ebt1)
        /\ Gt0(sim.ebt1) => sim.netIncome1 = Mul(sim.ebt1, Sub(I(1), assm.taxRate))

\* C16 witness: a pre-tax loss with the tax rate slider at its maximum
C16_Witness ==
    /\ Projected
    /\ assm.taxRate = Num(1, 2)
    /\ Gt0(Neg(sim.ebt1))
    /\ sim.tax1 = I(0)
    /\ sim.netIncome1 = sim.ebt1

CsvDone == csv.stage = "done"

\* the lines of the text, its leading and trailing whitespace trimmed
LinesOf(t) == splitLines(trim(t))

\* the header names: the pieces of the first line between commas, trimmed
HeadersOf(t) ==
    LET hs == splitCommas(LinesOf(t)[1])
    IN  [i \in 1..Len(hs) |-> trim(hs[i])]

\* the trimmed cell at position i of a line, the empty string when it has none
CellAt(line, i) ==
    LET cells == splitCells(line)
    IN  IF i <= Len(cells) THEN trim(cells[i]) ELSE ""

KeySet(obj) == {obj[i][1] : i \in 1..Len(obj)}

\* C14 as stated: one mapping per line after the header line, in line order, whose
\* keys are exactly the header names, header i holding the trimmed cell i, or the
\* empty string when the line has no cell i.
C14_ParserZipsByPosition ==
    CsvDone =>
        LET lines == LinesOf(csv.text)
            hs == HeadersOf(csv.text)
        IN  /\ Len(csv.parsed) = Len(lines) - 1
            /\ \A j \in 1..Len(csv.parsed) :
                  /\ KeySet(csv.parsed[j]) = {hs[i] : i \in 1..Len(hs)}
                  /\ \A i \in 1..Len(hs) :
                        objGet(csv.parsed[j], hs[i]) = CellAt(lines[j + 1], i)

\* C14 amended: the keys are the distinct header names other than __proto__, and a
\* name holds the trimmed cell at the position of the last header of that name.
C14_ParserZipsLastColumnOfName ==
    CsvDone =>
        LET lines == LinesOf(csv.text)
            hs == HeadersOf(csv.text)
            lastOf(h) == CHOOSE i \in 1..Len(hs) :
                            hs[i] = h /\ \A k \in (i + 1)..Len(hs) : hs[k] # h
        IN  /\ Len(csv.parsed) = Len(lines) - 1
            /\ \A j \in 1..Len(csv.parsed) :
                  /\ KeySet(csv.parsed[j]) = {hs[i] : i \in 1..Len(hs)} \ {"__proto__"}
                  /\ Len(csv.parsed[j]) = Cardinality(KeySet(csv.parsed[j]))
                  /\ \A h \in KeySet(csv.parsed[j]) :
                        objGet(csv.parsed[j], h) = CellAt(lines[j + 1], lastOf(h))

\* C14 witness: a line longer than the header, then a line shorter than it with a
\* quoted comma
C14_Witness ==
    /\ CsvDone
    /\ HeadersOf(csv.text) = <<"period", "revenue", "cogs">>
    /\ Len(csv.parsed) = 2
    /\ csv.parsed[1] = <<<<"period", "1">>, <<"revenue", "2">>, <<"cogs", "3">>>>
    /\ csv.parsed[2] = <<<<"period", "x,y">>, <<"revenue", "-5">>, <<"cogs", "">>>>

\* the positions in a field's alias list of the aliases that some key of the
\* mapping equals, letter case aside
MatchingAliases(obj, c) ==
    {k \in 1..Len(Aliases[c]) :
        \E key \in KeySet(obj) : toLowerCase(key) = toLowerCase(Aliases[c][k])}

\* the cell of the first key that equals, letter case aside, the earliest matching
\* alias of the field
ResolvedCell(obj, c) ==
    LET m == MatchingAliases(obj, c)
        a == Aliases[c][CHOOSE k \in m : \A l \in m : k <= l]
        keys == {i \in 1..Len(obj) : toLowerCase(obj[i][1]) = toLowerCase(a)}
    IN  obj[CHOOSE i \in keys : \A l \in keys : i <= l][2]

NumericFields == DOMAIN Aliases \ {"period"}

\* C13: every field of every row is read from the header that equals, letter case
\* aside, the earliest alias of the field's list that matches any header, wherever
\* the columns stand; with no alias matching, a numeric field is 0 and period is "".
C13_AliasPriorityNotPosition ==
    CsvDone =>
        \A j \in 1..Len(csv.parsed) :
            LET obj == csv.parsed[j]
            IN  /\ rows[j].period = IF MatchingAliases(obj, "period") = {} THEN ""
                                    ELSE ResolvedCell(obj, "period")
                /\ \A c \in NumericFields :
                      rows[j][c] = IF MatchingAliases(obj, c) = {} THEN I(0)
                                   ELSE num(ResolvedCell(obj, c))

\* C13 witness: a sales column standing before the revenue column, revenue read
\* from the latter, and no column for cogs
C13_Witness ==
    /\ CsvDone
    /\ Len(rows) >= 1
    /\ csv.parsed[1] = <<<<"sales", "1">>, <<"revenue", "2">>>>
    /\ rows[1].revenue = I(2)
    /\ rows[1].cogs = I(0)
    /\ rows[1].period = ""

\* what the self-test CSV normalizes to
SelfTestPeriod ==
    WithOptional(Period("2020", 100, 40, 20, 25, 30, -10, -5, 200, 90, 110), 0, 0, 0, 0, 0)

\* C12: one Period per input row, in input order, every numeric field with no
\* column in the header or with an empty cell being 0; the self-test CSV gives one
\* Period, "2020", revenue 100, cogs 40, the optional fields 0.
C12_OnePeriodPerRowEmptyIsZero ==
    CsvDone =>
        /\ Len(rows) = Len(csv.parsed)
        /\ Len(rows) = Len(LinesOf(csv.text)) - 1
        /\ \A j \in 1..Len(rows) :
              /\ rows[j] = coerceRow(csv.parsed[j])
              /\ \A c \in NumericFields :
                    (MatchingAliases(csv.parsed[j], c) = {} \/ ResolvedCell(csv.parsed[j], c) = "")
                        => rows[j][c] = I(0)
        /\ csv.text = SelfTestCSV => rows = <<SelfTestPeriod>>

\* C12 witness: two rows, the first with an empty revenue cell and no opex column
C12_Witness ==
    /\ CsvDone
    /\ Len(rows) = 2
    /\ HeadersOf(csv.text) = <<"period", "revenue", "cogs">>
    /\ csv.parsed[1] = <<<<"period", "">>, <<"revenue", "">>, <<"cogs", "abc">>>>
    /\ rows[1].revenue = I(0)
    /\ rows[1].opex = I(0)
    /\ IsNaN(rows[1].cogs)
    /\ rows[2].period = "2020"
    /\ rows[2].revenue = I(100)

Exported == CsvDone /\ csv.exported

\* a label the parser hands back as written: no whitespace at either end, no comma,
\* double quote or line break in it
PlainLabel(l) ==
    /\ trim(l) = l
    /\ \A i \in 1..Len(l) : CharAt(l, i) \notin {",", "\"", "\n", "\r"}

\* a Period with 0 for every field it does not hold
WithDefaults(p) ==
    [c \in DOMAIN p |-> IF c # "period" /\ p[c] = Undefined THEN I(0) ELSE p[c]]

\* C11 as stated: periods written out as comma-delimited text under the canonical
\* header, parsed and normalized, come back as the same sequence, field by field.
C11_RoundTrip == Exported => rows = data

\* C11 amended: that holds for labels the parser hands back as written, with every
\* field a period does not hold coming back as 0.
C11_RoundTripPlainLabels ==
    (Exported /\ \A i \in 1..Len(data) : PlainLabel(data[i].period)) =>
        /\ Len(rows) = Len(data)
        /\ \A i \in 1..Len(data) : rows[i] = WithDefaults(data[i])

\* C11 witness: two periods holding every field, with a fraction, came back
C11_Witness ==
    /\ Exported
    /\ data = <<RB, RA>>
    /\ rows = data
    /\ rows[1].revenue = Num(841, 2)

====
